---------------------------- MODULE Spec2Model ----------------------------
(***************************************************************************)
(* Model of src/app/api/generate-dynamic-resume-pdf/route.ts.              *)
(*                                                                         *)
(* A JavaScript string is a sequence of one-character strings.  Two        *)
(* characters of the source are written with ASCII stand-ins: the middle   *)
(* dot U+00B7 is "^" and the en dash U+2013 is "~".  Vertical coordinates  *)
(* are in tenths of a point, so that 15.4 is 154.                          *)
(*                                                                         *)
(* The module holds five specifications over one set of variables:         *)
(*   SpecParse  parseResume  applied to bounded texts                      *)
(*   SpecWrap   wrapText     applied to bounded texts and widths           *)
(*   SpecDate   formatDate   applied to bounded period strings             *)
(*   SpecPost   the POST handler, step by step                             *)
(*   Spec       generateResumePdf, one body line per step                  *)
(***************************************************************************)
EXTENDS Integers, Sequences, FiniteSets, TLC

VARIABLES
    pc,             \* position of the operation under study
    resumeText,     \* parseResume: the input text
    parsed,         \* parseResume: the returned record
    wrapIn,         \* wrapText: the arguments
    wrapOut,        \* wrapText: the returned lines
    dateStr,        \* formatDate: the argument
    formatted,      \* formatDate(dateStr)
    reformatted,    \* formatDate(formatDate(dateStr))
    request,        \* POST: the form, the credential and what the awaits give
    response,       \* POST: the response returned
    calls,          \* POST: what the handler has invoked so far
    more,           \* generateResumePdf: body lines follow resumeText
    bodyLines,      \* generateResumePdf: the body lines not yet processed
    count,          \* generateResumePdf: the number of body lines processed
    lastLine,       \* generateResumePdf: the body line processed last
    cursor,         \* generateResumePdf: y, the page count, the total advance
    inSkillsSection,
    skills,
    drawn           \* generateResumePdf: what the last step drew, and where

parseVars == <<resumeText, parsed>>
wrapVars == <<wrapIn, wrapOut>>
dateVars == <<dateStr, formatted, reformatted>>
postVars == <<request, response, calls>>
flowVars ==
    <<more, bodyLines, count, lastLine, cursor, inSkillsSection, skills, drawn>>

vars == <<pc, parseVars, wrapVars, dateVars, postVars, flowVars>>

-----------------------------------------------------------------------------
(* Strings *)

NL == "\n"
SP == " "
MIDDOT == "^"
ENDASH == "~"

\* what String.prototype.trim strips
WhiteSpace == {" ", "\t", "\n", "\r"}

\* the value of a variable that was never assigned
undefined == <<"undefined">>

\* the value a model variable holds before the operation computes it
None == <<"none">>

RECURSIVE trimStart(_)
trimStart(s) ==
    IF s # <<>> /\ Head(s) \in WhiteSpace THEN trimStart(Tail(s)) ELSE s

RECURSIVE trimEnd(_)
trimEnd(s) ==
    IF s # <<>> /\ s[Len(s)] \in WhiteSpace
    THEN trimEnd(SubSeq(s, 1, Len(s) - 1))
    ELSE s

trim(s) == trimEnd(trimStart(s))

\* s.split(sep) for a one-character separator
RECURSIVE split(_, _)
split(s, sep) ==
    IF \E k \in 1..Len(s) : s[k] = sep
    THEN LET k == CHOOSE j \in 1..Len(s) :
                      s[j] = sep /\ \A m \in 1..(j - 1) : s[m] # sep
         IN  <<SubSeq(s, 1, k - 1)>> \o split(SubSeq(s, k + 1, Len(s)), sep)
    ELSE <<s>>

\* parts.join(sep) for a separator string
RECURSIVE join(_, _)
join(parts, sep) ==
    IF parts = <<>> THEN <<>>
    ELSE IF Len(parts) = 1 THEN parts[1]
    ELSE parts[1] \o sep \o join(Tail(parts), sep)

includes(s, c) == \E k \in 1..Len(s) : s[k] = c

\* the elements of a sequence
Range(q) == {q[i] : i \in 1..Len(q)}

\* all sequences over S of length at most n
SeqsUpTo(S, n) == UNION {[1..k -> S] : k \in 0..n}

\* the variables of the operations a specification does not exercise
IdleParse == resumeText = None /\ parsed = None
IdleWrap == wrapIn = None /\ wrapOut = None
IdleDate == dateStr = None /\ formatted = None /\ reformatted = None
IdlePost == request = None /\ response = None /\ calls = None
IdleFlow ==
    /\ more = None /\ bodyLines = None /\ count = None /\ lastLine = None
    /\ cursor = None /\ inSkillsSection = None /\ skills = None
    /\ drawn = None

-----------------------------------------------------------------------------
(* parseResume *)

HeaderFields == 6

\* the destructuring  const [a, b, ...] = info
field(info, k) == IF k <= Len(info) THEN info[k] ELSE undefined

\* a header loop that records the index of the sixth line, not the one after
RECURSIVE headerLoopOffByOne(_, _, _)
headerLoopOffByOne(lines, idx, info) ==
    IF idx >= Len(lines) THEN [info |-> info, bodyStart |-> 0]
    ELSE LET t == trim(lines[idx + 1])
             pushed == IF t # <<>> THEN Append(info, t) ELSE info
         IN  IF Len(pushed) = HeaderFields
             THEN [info |-> pushed, bodyStart |-> idx]
             ELSE headerLoopOffByOne(lines, idx + 1, pushed)

\* a header loop that, when the lines run out before the sixth header line,
\* puts the start of the body after the lines it has read
RECURSIVE headerLoopConsumes(_, _, _)
headerLoopConsumes(lines, idx, info) ==
    IF idx >= Len(lines) THEN [info |-> info, bodyStart |-> idx]
    ELSE LET t == trim(lines[idx + 1])
             pushed == IF t # <<>> THEN Append(info, t) ELSE info
         IN  IF Len(pushed) = HeaderFields
             THEN [info |-> pushed, bodyStart |-> idx + 1]
             ELSE headerLoopConsumes(lines, idx + 1, pushed)

\* the for loop: idx is the 0-based index of the source
RECURSIVE headerLoop(_, _, _)
headerLoop(lines, idx, info) ==
    IF idx >= Len(lines) THEN [info |-> info, bodyStart |-> 0]
    ELSE LET t == trim(lines[idx + 1])
             pushed == IF t # <<>> THEN Append(info, t) ELSE info
         IN  IF Len(pushed) = HeaderFields
             THEN [info |-> pushed, bodyStart |-> idx + 1]
             ELSE headerLoop(lines, idx + 1, pushed)

\* the while loop
RECURSIVE skipBlank(_, _)
skipBlank(lines, bodyStart) ==
    IF bodyStart < Len(lines) /\ trim(lines[bodyStart + 1]) = <<>>
    THEN skipBlank(lines, bodyStart + 1)
    ELSE bodyStart

parseResume(text) ==
    LET lines == split(text, NL)
        h == headerLoop(lines, 0, <<>>)
        bodyStart == skipBlank(lines, h.bodyStart)
    IN  [headline |-> field(h.info, 1),
         name     |-> field(h.info, 2),
         email    |-> field(h.info, 3),
         phone    |-> field(h.info, 4),
         location |-> field(h.info, 5),
         linkedin |-> field(h.info, 6),
         body     |-> join(SubSeq(lines, bodyStart + 1, Len(lines)), <<NL>>)]

\* bounded inputs of parseResume
MaxParseLines == 8
ParseLines == {<<>>, <<" ">>, <<"a">>, <<" ", "b", " ">>}
ParseInputs == {join(ls, <<NL>>) : ls \in SeqsUpTo(ParseLines, MaxParseLines)}

InitParse ==
    /\ pc = "parse"
    /\ resumeText \in ParseInputs
    /\ parsed = None
    /\ IdleWrap /\ IdleDate /\ IdlePost /\ IdleFlow

Parse ==
    /\ pc = "parse"
    /\ parsed' = parseResume(resumeText)
    /\ pc' = "parsed"
    /\ UNCHANGED <<resumeText, wrapVars, dateVars, postVars, flowVars>>

NextParse == Parse

SpecParse == InitParse /\ [][NextParse]_vars

\* the 1-based positions of the non-blank lines of a text
NonBlank(lines) == {i \in 1..Len(lines) : trim(lines[i]) # <<>>}

\* the k-th smallest element of a set of numbers
Nth(S, k) == CHOOSE i \in S : Cardinality({j \in S : j <= i}) = k

\* C3: for a text with at least six non-blank lines, parseResume returns the
\* first six non-blank lines, trimmed, as headline, name, email, phone,
\* location and linkedin in this order, and the body is the input from the
\* first non-blank line after the sixth header line on (empty when there is
\* none), rejoined with newlines.
C3_HeaderAndBody ==
    pc = "parsed" =>
        LET lines == split(resumeText, NL)
            nb == NonBlank(lines)
        IN  Cardinality(nb) >= 6 =>
                LET after == {i \in nb : i > Nth(nb, 6)}
                IN  /\ parsed.headline = trim(lines[Nth(nb, 1)])
                    /\ parsed.name     = trim(lines[Nth(nb, 2)])
                    /\ parsed.email    = trim(lines[Nth(nb, 3)])
                    /\ parsed.phone    = trim(lines[Nth(nb, 4)])
                    /\ parsed.location = trim(lines[Nth(nb, 5)])
                    /\ parsed.linkedin = trim(lines[Nth(nb, 6)])
                    /\ parsed.body =
                          IF after = {} THEN <<>>
                          ELSE join(SubSeq(lines, Nth(after, 1), Len(lines)),
                                    <<NL>>)

\* a parsed text with six header lines, blank lines after them and a body
C3_Witness ==
    /\ pc = "parsed"
    /\ LET lines == split(resumeText, NL)
           nb == NonBlank(lines)
       IN  /\ Cardinality(nb) >= 7
           /\ Nth(nb, 7) > Nth(nb, 6) + 1
           /\ parsed.body # <<>>

\* the header fields of a parsed text, in the order of the destructuring
HeaderOf(p) ==
    <<p.headline, p.name, p.email, p.phone, p.location, p.linkedin>>

\* C14: for a text with k < 6 non-blank lines, parseResume returns a result
\* (no step of it can throw, and pc = "parsed" is reached): the k lines, trimmed, are the first k header fields in order,
\* the other header fields are undefined, and the body is the whole input
\* from its first non-blank line on, the header lines included (empty when
\* there is no non-blank line).
C14_ShortInput ==
    pc = "parsed" =>
        LET lines == split(resumeText, NL)
            nb == NonBlank(lines)
            k == Cardinality(nb)
        IN  k < HeaderFields =>
                /\ \A j \in 1..k : HeaderOf(parsed)[j] = trim(lines[Nth(nb, j)])
                /\ \A j \in (k + 1)..HeaderFields :
                       HeaderOf(parsed)[j] = undefined
                /\ parsed.body =
                       IF nb = {} THEN <<>>
                       ELSE join(SubSeq(lines, Nth(nb, 1), Len(lines)), <<NL>>)

\* a parsed text with one to five non-blank lines after a leading blank
\* line, and a blank line between them
C14_Witness ==
    /\ pc = "parsed"
    /\ LET lines == split(resumeText, NL)
           nb == NonBlank(lines)
       IN  /\ Cardinality(nb) \in 2..(HeaderFields - 1)
           /\ Nth(nb, 1) > 1
           /\ Nth(nb, 2) > Nth(nb, 1) + 1
           /\ parsed.linkedin = undefined
           /\ parsed.body # <<>>

-----------------------------------------------------------------------------
(* Page geometry and type sizes of generateResumePdf.  Lengths that move   *)
(* the cursor are in tenths of a point; widths and sizes are in points.    *)

MARGIN_TOP == 72
MARGIN_BOTTOM == 50
MARGIN_LEFT == 50
MARGIN_RIGHT == 50
PAGE_WIDTH == 595
PAGE_HEIGHT == 842
CONTENT_WIDTH == PAGE_WIDTH - MARGIN_LEFT - MARGIN_RIGHT

NAME_SIZE == 24
CONTACT_SIZE == 9
SECTION_HEADER_SIZE == 14
BODY_SIZE == 11

\* NAME_SIZE * 0.8, CONTACT_SIZE * 1.5, SECTION_HEADER_SIZE * 1.5 and
\* BODY_SIZE * 1.4, times ten
NAME_LINE_HEIGHT == NAME_SIZE * 8
CONTACT_LINE_HEIGHT == CONTACT_SIZE * 15
SECTION_LINE_HEIGHT == SECTION_HEADER_SIZE * 15
BODY_LINE_HEIGHT == BODY_SIZE * 14

-----------------------------------------------------------------------------
(* wrapText *)

\* font.widthOfTextAtSize(text, size) of the PDF library, in points.  Every
\* glyph of a face has one advance, in em; the bold face is the wider one.
\* The advance is many times that of a real face, so that a text of a few
\* characters wraps as a real line of a hundred does.
GlyphAdvance(font) == IF font = "fontBold" THEN 11 ELSE 10

widthOfTextAtSize(font, text, size) == Len(text) * GlyphAdvance(font) * size

\* a loop body that measures the next word alone, not the candidate line
wrapStepMeasuresWord(acc, word, font, size, maxWidth) ==
    LET testLine == IF acc.currentLine # <<>>
                    THEN acc.currentLine \o <<SP>> \o word
                    ELSE word
        testWidth == widthOfTextAtSize(font, word, size)
    IN  IF testWidth > maxWidth /\ acc.currentLine # <<>>
        THEN [lines |-> Append(acc.lines, acc.currentLine),
              currentLine |-> word]
        ELSE [lines |-> acc.lines, currentLine |-> testLine]

\* a loop body that starts the new line empty, losing the word that overflowed
wrapStepDropsWord(acc, word, font, size, maxWidth) ==
    LET testLine == IF acc.currentLine # <<>>
                    THEN acc.currentLine \o <<SP>> \o word
                    ELSE word
        testWidth == widthOfTextAtSize(font, testLine, size)
    IN  IF testWidth > maxWidth /\ acc.currentLine # <<>>
        THEN [lines |-> Append(acc.lines, acc.currentLine),
              currentLine |-> <<>>]
        ELSE [lines |-> acc.lines, currentLine |-> testLine]

\* the body of the for loop; an empty currentLine is falsy
wrapStep(acc, word, font, size, maxWidth) ==
    LET testLine == IF acc.currentLine # <<>>
                    THEN acc.currentLine \o <<SP>> \o word
                    ELSE word
        testWidth == widthOfTextAtSize(font, testLine, size)
    IN  IF testWidth > maxWidth /\ acc.currentLine # <<>>
        THEN [lines |-> Append(acc.lines, acc.currentLine),
              currentLine |-> word]
        ELSE [lines |-> acc.lines, currentLine |-> testLine]

RECURSIVE wrapLoop(_, _, _, _, _, _)
wrapLoop(words, i, acc, font, size, maxWidth) ==
    IF i >= Len(words) THEN acc
    ELSE wrapLoop(words, i + 1,
                  wrapStep(acc, words[i + 1], font, size, maxWidth),
                  font, size, maxWidth)

wrapText(text, font, size, maxWidth) ==
    LET r == wrapLoop(split(text, SP), 0,
                      [lines |-> <<>>, currentLine |-> <<>>],
                      font, size, maxWidth)
    IN  IF r.currentLine # <<>> THEN Append(r.lines, r.currentLine)
        ELSE r.lines

\* bounded inputs of wrapText: the styles generateResumePdf wraps with
MaxWrapLen == 8
WrapChars == {"a", "b", SP}
WrapStyles ==
    {[font |-> "fontBold", size |-> NAME_SIZE, maxWidth |-> CONTENT_WIDTH],
     [font |-> "font", size |-> CONTACT_SIZE, maxWidth |-> CONTENT_WIDTH],
     [font |-> "fontBold", size |-> SECTION_HEADER_SIZE,
      maxWidth |-> CONTENT_WIDTH],
     [font |-> "fontBold", size |-> BODY_SIZE + 1,
      maxWidth |-> CONTENT_WIDTH - 10],
     [font |-> "font", size |-> BODY_SIZE, maxWidth |-> CONTENT_WIDTH - 10],
     [font |-> "font", size |-> BODY_SIZE - 1,
      maxWidth |-> CONTENT_WIDTH - 10],
     [font |-> "fontBold", size |-> BODY_SIZE + 1,
      maxWidth |-> CONTENT_WIDTH - 20],
     [font |-> "font", size |-> BODY_SIZE, maxWidth |-> CONTENT_WIDTH - 20]}

InitWrap ==
    /\ pc = "wrap"
    /\ \E t \in SeqsUpTo(WrapChars, MaxWrapLen), st \in WrapStyles :
          wrapIn = [text |-> t, font |-> st.font, size |-> st.size,
                    maxWidth |-> st.maxWidth]
    /\ wrapOut = None
    /\ IdleParse /\ IdleDate /\ IdlePost /\ IdleFlow

Wrap ==
    /\ pc = "wrap"
    /\ wrapOut' = wrapText(wrapIn.text, wrapIn.font, wrapIn.size,
                           wrapIn.maxWidth)
    /\ pc' = "wrapped"
    /\ UNCHANGED <<wrapIn, parseVars, dateVars, postVars, flowVars>>

NextWrap == Wrap

SpecWrap == InitWrap /\ [][NextWrap]_vars

\* the words of a string: its maximal runs of characters other than the space
Words(s) == SelectSeq(split(s, SP), LAMBDA w : w # <<>>)

TooWide(line) ==
    widthOfTextAtSize(wrapIn.font, line, wrapIn.size) > wrapIn.maxWidth

\* C4: no line wrapText emits is wider than maxWidth, except a line that is
\* one word of the input which is wider than maxWidth by itself.
C4_LinesFit ==
    pc = "wrapped" =>
        \A k \in 1..Len(wrapOut) :
            TooWide(wrapOut[k]) =>
                /\ ~ includes(wrapOut[k], SP)
                /\ wrapOut[k] \in Range(Words(wrapIn.text))

\* wrapText emitted an overwide single word next to a line of several words
C4_Witness ==
    /\ pc = "wrapped"
    /\ \E k \in 1..Len(wrapOut) : TooWide(wrapOut[k])
    /\ \E k \in 1..Len(wrapOut) :
          Len(Words(wrapOut[k])) >= 2 /\ ~ TooWide(wrapOut[k])

\* C5: the words of the emitted lines, in order, are the words of the input,
\* in order: joining the lines with single spaces gives the input up to runs
\* of spaces.
C5_WordsPreserved ==
    pc = "wrapped" => Words(join(wrapOut, <<SP>>)) = Words(wrapIn.text)

\* wrapText broke a text with a run of spaces into several lines
C5_Witness ==
    /\ pc = "wrapped"
    /\ Len(wrapOut) >= 2
    /\ Len(Words(wrapIn.text)) >= 3
    /\ \E k \in 1..(Len(wrapIn.text) - 1) :
          wrapIn.text[k] = SP /\ wrapIn.text[k + 1] = SP

-----------------------------------------------------------------------------
(* formatDate *)

monthNames ==
    << <<"J", "a", "n">>, <<"F", "e", "b">>, <<"M", "a", "r">>,
       <<"A", "p", "r">>, <<"M", "a", "y">>, <<"J", "u", "n">>,
       <<"J", "u", "l">>, <<"A", "u", "g">>, <<"S", "e", "p">>,
       <<"O", "c", "t">>, <<"N", "o", "v">>, <<"D", "e", "c">> >>

Digits == {"0", "1", "2", "3", "4", "5", "6", "7", "8", "9"}

DigitValue(c) ==
    CASE c = "0" -> 0 [] c = "1" -> 1 [] c = "2" -> 2 [] c = "3" -> 3
      [] c = "4" -> 4 [] c = "5" -> 5 [] c = "6" -> 6 [] c = "7" -> 7
      [] c = "8" -> 8 [] c = "9" -> 9

\* parseInt of a string of digits
RECURSIVE parseInt(_)
parseInt(s) ==
    IF s = <<>> THEN 0
    ELSE 10 * parseInt(SubSeq(s, 1, Len(s) - 1)) + DigitValue(s[Len(s)])

\* part.match(/^\d{2}\/\d{4}$/)
matchesMonthYear(part) ==
    /\ Len(part) = 7
    /\ part[3] = "/"
    /\ \A k \in {1, 2, 4, 5, 6, 7} : part[k] \in Digits

\* `${monthNames[monthIndex]} ${year}`: an index outside the table reads
\* undefined, which the template prints as the word
monthYear(part) ==
    LET month == SubSeq(part, 1, 2)
        year == SubSeq(part, 4, 7)
        monthIndex == parseInt(month) - 1
        monthName == IF monthIndex \in 0..(Len(monthNames) - 1)
                     THEN monthNames[monthIndex + 1]
                     ELSE <<"u", "n", "d", "e", "f", "i", "n", "e", "d">>
    IN  monthName \o <<SP>> \o year

\* a split at the first dash only, into two parts
splitFirstDash(s) ==
    IF \E k \in 1..Len(s) : s[k] \in {ENDASH, "-"}
    THEN LET k == CHOOSE j \in 1..Len(s) :
                      /\ s[j] \in {ENDASH, "-"}
                      /\ \A m \in 1..(j - 1) : s[m] \notin {ENDASH, "-"}
         IN  <<SubSeq(s, 1, k - 1), SubSeq(s, k + 1, Len(s))>>
    ELSE <<s>>

\* dateStr.split(/[~-]/): split at every dash of either kind
RECURSIVE splitDashes(_)
splitDashes(s) ==
    IF \E k \in 1..Len(s) : s[k] \in {ENDASH, "-"}
    THEN LET k == CHOOSE j \in 1..Len(s) :
                      /\ s[j] \in {ENDASH, "-"}
                      /\ \A m \in 1..(j - 1) : s[m] \notin {ENDASH, "-"}
         IN  <<SubSeq(s, 1, k - 1)>> \o splitDashes(SubSeq(s, k + 1, Len(s)))
    ELSE <<s>>

\* a split that keeps the blanks around the parts
datePartsUntrimmed(s) == splitDashes(s)

\* dateStr.split(/[~-]/).map(part => part.trim())
dateParts(s) ==
    LET raw == splitDashes(s)
    IN  [k \in 1..Len(raw) |-> trim(raw[k])]

formatDate(s) ==
    IF includes(s, ENDASH) \/ includes(s, "-")
    THEN LET parts == dateParts(s)
         IN  join([k \in 1..Len(parts) |->
                      IF matchesMonthYear(parts[k]) THEN monthYear(parts[k])
                      ELSE parts[k]],
                  <<SP, ENDASH, SP>>)
    ELSE IF matchesMonthYear(s) THEN monthYear(s)
    ELSE s

\* bounded inputs of formatDate: up to MaxDateTokens of these, concatenated
MaxDateTokens == 3
DateTokens ==
    {<<"0", "6", "/", "2", "0", "2", "2">>,
     <<"1", "3", "/", "2", "0", "2", "1">>,
     <<"0", "0", "/", "2", "0", "2", "0">>,
     <<"J", "a", "n", " ", "2", "0", "2", "0">>,
     <<"M", "a", "r", " ", "2", "0", "2", "2">>,
     <<"C", "u", "r", "r", "e", "n", "t">>,
     <<"2", "0", "2", "2">>,
     <<"-">>,
     <<"~">>,
     <<" ">>,
     <<" ", "-", " ">>,
     <<" ", "~", " ">>}

RECURSIVE concat(_)
concat(parts) == IF parts = <<>> THEN <<>> ELSE Head(parts) \o concat(Tail(parts))

InitDate ==
    /\ pc = "format"
    /\ dateStr \in {concat(ts) : ts \in SeqsUpTo(DateTokens, MaxDateTokens)}
    /\ formatted = None
    /\ reformatted = None
    /\ IdleParse /\ IdleWrap /\ IdlePost /\ IdleFlow

FormatDate ==
    /\ pc = "format"
    /\ formatted' = formatDate(dateStr)
    /\ reformatted' = formatDate(formatted')
    /\ pc' = "formatted"
    /\ UNCHANGED <<dateStr, parseVars, wrapVars, postVars, flowVars>>

NextDate == FormatDate

SpecDate == InitDate /\ [][NextDate]_vars

\* C6: formatDate(formatDate(s)) = formatDate(s) for every period string s;
\* "Jan 2020 ~ Mar 2022" is returned unchanged and "06/2022 - Current" gives
\* "Jun 2022 ~ Current".
C6_Idempotent ==
    pc = "formatted" =>
        /\ reformatted = formatted
        /\ dateStr = <<"J", "a", "n", " ", "2", "0", "2", "0", " ", "~", " ", "M", "a", "r", " ", "2", "0", "2", "2">>
              => formatted = dateStr
        /\ dateStr = <<"0", "6", "/", "2", "0", "2", "2", " ", "-", " ", "C", "u", "r", "r", "e", "n", "t">>
              => formatted = <<"J", "u", "n", " ", "2", "0", "2", "2", " ", "~", " ", "C", "u", "r", "r", "e", "n", "t">>

\* formatDate rewrote a range of two dates, and rewriting it again changed
\* nothing
C6_Witness ==
    /\ pc = "formatted"
    /\ formatted # dateStr
    /\ Len(dateParts(dateStr)) = 2
    /\ \E k \in 1..2 : matchesMonthYear(dateParts(dateStr)[k])
    /\ reformatted = formatted

\* where the dashes of either kind stand in a string
Dashes(s) == {k \in 1..Len(s) : s[k] \in {ENDASH, "-"}}

\* the j-th stretch of s between its dashes, trimmed
Segment(s, j) ==
    LET from == IF j = 1 THEN 1 ELSE Nth(Dashes(s), j - 1) + 1
        to == IF j = Cardinality(Dashes(s)) + 1 THEN Len(s)
              ELSE Nth(Dashes(s), j) - 1
    IN  trim(SubSeq(s, from, to))

\* a part in MM/YYYY form as month name and year, any other part as it is
MonthYearOrSame(part) ==
    IF matchesMonthYear(part) THEN monthYear(part) ELSE part

\* C12 as stated: a period string with a dash-like separator is split into
\* exactly two parts, so the result is two parts around one " ~ ", also when
\* the string holds more than one dash-like character.
C12_TwoParts ==
    (pc = "formatted" /\ Dashes(dateStr) # {}) =>
        Cardinality(Dashes(formatted)) = 1

\* C12, amended: a period string with n >= 1 dash-like characters is split at
\* every one of them into n + 1 parts; each part is trimmed, a part in
\* MM/YYYY form becomes month name and year, every other part is passed
\* through, and all n + 1 parts are joined again with " ~ ".
C12_EveryDashSplits ==
    (pc = "formatted" /\ Dashes(dateStr) # {}) =>
        LET n == Cardinality(Dashes(dateStr))
        IN  /\ formatted =
                   join([j \in 1..(n + 1) |->
                            MonthYearOrSame(Segment(dateStr, j))],
                        <<SP, ENDASH, SP>>)
            /\ Cardinality(Dashes(formatted)) = n

\* formatDate rewrote a string of two or more dashes with a MM/YYYY part
C12_Witness ==
    /\ pc = "formatted"
    /\ Cardinality(Dashes(dateStr)) >= 2
    /\ \E j \in 1..(Cardinality(Dashes(dateStr)) + 1) :
           matchesMonthYear(Segment(dateStr, j))
    /\ formatted # dateStr

-----------------------------------------------------------------------------
(* POST *)

\* formData.get gives null for an absent field, a string for a text field
\* and a File for an uploaded one
null == <<"null">>
File == <<"File">>

IsString(v) == v \notin {null, File}

\* !v for a form value
Falsy(v) == v = null \/ v = <<>>

AcmeInc == <<"A", "c", "m", "e", " ", "I", "n", "c", ".">>
BackendEng == <<"B", "a", "c", "k", "e", "n", "d", " ", "E", "n", "g", ".">>
BuildAPIs == <<"B", "u", "i", "l", "d", " ", "A", "P", "I", "s">>
SummaryText == <<"S", "u", "m", "m", "a", "r", "y", ":">>

\* a validation that forgets the role
missingRequiredButRole(jobDescription, company, role) ==
    Falsy(jobDescription) \/ Falsy(company)

\* !jobDescription || !company || !role
missingRequired(jobDescription, company, role) ==
    Falsy(jobDescription) \/ Falsy(company) \/ Falsy(role)

\* no test of the completion at all
emptyCompletionIgnored(content) == FALSE

\* !tailoredResume, where tailoredResume is  content || ''
emptyCompletion(content) == Falsy(content)

Alphanumeric ==
    {"a", "b", "c", "d", "e", "f", "g", "h", "i", "j", "k", "l", "m",
     "n", "o", "p", "q", "r", "s", "t", "u", "v", "w", "x", "y", "z",
     "A", "B", "C", "D", "E", "F", "G", "H", "I", "J", "K", "L", "M",
     "N", "O", "P", "Q", "R", "S", "T", "U", "V", "W", "X", "Y", "Z",
     "0", "1", "2", "3", "4", "5", "6", "7", "8", "9"}

\* a replacement that lets the full stop through
sanitizeKeepsDot(v) ==
    [k \in 1..Len(v) |->
        IF v[k] \in Alphanumeric \cup {"_", "."} THEN v[k] ELSE "_"]

\* v.replace(/[^a-zA-Z0-9_]/g, '_')
sanitize(v) ==
    [k \in 1..Len(v) |-> IF v[k] \in Alphanumeric \cup {"_"} THEN v[k] ELSE "_"]

\* `Louis_Bailey_${...}_${...}` and the `${fileBase}.pdf` of the header
fileName(company, role) ==
    <<"L", "o", "u", "i", "s", "_", "B", "a", "i", "l", "e", "y", "_">>
        \o sanitize(company) \o <<"_">> \o sanitize(role)
        \o <<".", "p", "d", "f">>

\* no response yet
NoResponse ==
    [status |-> 0, contentType |-> "", body |-> "", details |-> "",
     filename |-> None]

JsonResponse(status, error) ==
    [status |-> status, contentType |-> "application/json", body |-> error,
     details |-> "", filename |-> None]

PdfResponse(company, role) ==
    [status |-> 200, contentType |-> "application/pdf", body |-> "pdfBytes",
     details |-> "", filename |-> fileName(company, role)]

\* the catch clause
caught(message) ==
    [status |-> 500, contentType |-> "application/json",
     body |-> "Internal server error", details |-> message,
     filename |-> None]

MissingFieldsError == "Missing required fields: job_description, company, role"

\* what the handler's awaits can give
Throws == <<"throws">>
NoChoices == <<"noChoices">>
FormOutcomes == {"fields", "throws"}
CompletionOutcomes == {Throws, NoChoices, null, <<>>, SummaryText}
RenderOutcomes == {"bytes", "throws"}

InitPost ==
    /\ pc = "post"
    /\ \E f \in FormOutcomes,
          jd \in {null, <<>>, BuildAPIs},
          co \in {null, <<>>, AcmeInc, <<"a", "_", "1", "-", "Z">>, File},
          ro \in {null, <<>>, BackendEng, File},
          key \in BOOLEAN :
          request = [formData |-> f, job_description |-> jd, company |-> co,
                     role |-> ro, apiKey |-> key]
    /\ response = NoResponse
    /\ calls = [llm |-> 0, pdf |-> 0, completion |-> None, rendered |-> None]
    /\ IdleParse /\ IdleWrap /\ IdleDate /\ IdleFlow

\* await req.formData(), the validation and the credential check
ReadForm ==
    /\ pc = "post"
    /\ IF request.formData = "throws"
       THEN response' = caught("formData") /\ pc' = "responded"
       ELSE IF missingRequired(request.job_description, request.company,
                               request.role)
       THEN response' = JsonResponse(400, MissingFieldsError)
            /\ pc' = "responded"
       ELSE IF ~ request.apiKey
       THEN response' = JsonResponse(500, "OpenAI API key not configured")
            /\ pc' = "responded"
       ELSE response' = response /\ pc' = "completion"
    /\ UNCHANGED <<request, calls, parseVars, wrapVars, dateVars, flowVars>>

\* await openai.chat.completions.create(...) and the test of its content
Completion ==
    /\ pc = "completion"
    /\ \E outcome \in CompletionOutcomes :
          /\ calls' = [calls EXCEPT !.llm = @ + 1, !.completion = outcome]
          /\ IF outcome \in {Throws, NoChoices}
             THEN response' = caught("completion") /\ pc' = "responded"
             ELSE IF emptyCompletion(outcome)
             THEN response' =
                      JsonResponse(500,
                          "Failed to generate tailored resume content")
                  /\ pc' = "responded"
             ELSE response' = response /\ pc' = "render"
    /\ UNCHANGED <<request, parseVars, wrapVars, dateVars, flowVars>>

\* await generateResumePdf(tailoredResume) and the response built from it
Render ==
    /\ pc = "render"
    /\ \E outcome \in RenderOutcomes :
          /\ calls' = [calls EXCEPT
                          !.pdf = @ + 1,
                          !.rendered = IF outcome = "bytes"
                                       THEN calls.completion ELSE Throws]
          /\ response' =
                IF outcome = "throws" THEN caught("render")
                ELSE IF request.company = File \/ request.role = File
                THEN caught("replace is not a function")
                ELSE PdfResponse(request.company, request.role)
    /\ pc' = "responded"
    /\ UNCHANGED <<request, parseVars, wrapVars, dateVars, flowVars>>

NextPost == ReadForm \/ Completion \/ Render

SpecPost == InitPost /\ [][NextPost]_vars

\* C8: when the form was read and job_description, company or role is
\* missing or empty, POST answers 400 with the missing-fields JSON error and
\* calls neither the model nor the renderer.
C8_MissingFields ==
    ( /\ request.formData = "fields"
      /\ \E v \in {request.job_description, request.company, request.role} :
            v = null \/ v = <<>> )
    => /\ calls.llm = 0
       /\ calls.pdf = 0
       /\ pc # "post" =>
             /\ pc = "responded"
             /\ response = [status |-> 400,
                            contentType |-> "application/json",
                            body |-> MissingFieldsError, details |-> "",
                            filename |-> None]

\* POST answered a form whose only fault is the missing role
C8_Witness ==
    /\ pc = "responded"
    /\ request.formData = "fields"
    /\ request.role = null
    /\ request.job_description = BuildAPIs
    /\ request.company = AcmeInc
    /\ request.apiKey
    /\ response.status = 400

\* a request whose form, credential, completion and rendering are all good
Successful ==
    /\ pc = "responded"
    /\ request.formData = "fields"
    /\ IsString(request.job_description) /\ request.job_description # <<>>
    /\ IsString(request.company) /\ request.company # <<>>
    /\ IsString(request.role) /\ request.role # <<>>
    /\ request.apiKey
    /\ calls.completion = SummaryText
    /\ calls.rendered = SummaryText

\* C9 as stated: the request with company "Acme Inc." and role
\* "Backend Eng." is answered with the file name
\* Louis_Bailey_Acme_Inc_Backend_Eng_.pdf.
C9_FileNameAsStated ==
    (Successful /\ request.company = AcmeInc /\ request.role = BackendEng)
    => /\ response.status = 200
       /\ response.contentType = "application/pdf"
       /\ response.filename =
             <<"L", "o", "u", "i", "s", "_", "B", "a", "i", "l", "e", "y", "_", "A", "c", "m", "e", "_", "I", "n", "c", "_", "B", "a", "c", "k",
               "e", "n", "d", "_", "E", "n", "g", "_", ".", "p", "d", "f">>

\* C9, amended: a successful request is answered 200, application/pdf, with
\* the file name Louis_Bailey_<company>_<role>.pdf in which every character
\* of company and role outside [a-zA-Z0-9_] is an underscore; for
\* "Acme Inc." and "Backend Eng." it is
\* Louis_Bailey_Acme_Inc__Backend_Eng_.pdf, with two underscores between
\* Inc and Backend.
C9_FileName ==
    Successful
    => /\ response.status = 200
       /\ response.contentType = "application/pdf"
       /\ LET co == request.company
              ro == request.role
              fn == response.filename
          IN  /\ Len(fn) = 13 + Len(co) + 1 + Len(ro) + 4
              /\ SubSeq(fn, 1, 13) = <<"L", "o", "u", "i", "s", "_", "B", "a", "i", "l", "e", "y", "_">>
              /\ \A k \in 1..Len(co) :
                    fn[13 + k] = IF co[k] \in Alphanumeric \cup {"_"}
                                 THEN co[k] ELSE "_"
              /\ fn[14 + Len(co)] = "_"
              /\ \A k \in 1..Len(ro) :
                    fn[14 + Len(co) + k] = IF ro[k] \in Alphanumeric \cup {"_"}
                                           THEN ro[k] ELSE "_"
              /\ SubSeq(fn, Len(fn) - 3, Len(fn)) = <<".", "p", "d", "f">>
       /\ (request.company = AcmeInc /\ request.role = BackendEng)
             => response.filename =
                   <<"L", "o", "u", "i", "s", "_", "B", "a", "i", "l", "e", "y", "_", "A", "c", "m", "e", "_", "I", "n", "c", "_", "_", "B", "a", "c", "k",
                     "e", "n", "d", "_", "E", "n", "g", "_", ".", "p", "d", "f">>

\* the successful request for "Acme Inc." and "Backend Eng."
C9_Witness ==
    Successful /\ request.company = AcmeInc /\ request.role = BackendEng

\* C10: a 200 response is returned only after the completion gave non-empty
\* content and generateResumePdf returned the bytes for that content; when
\* form parsing, the completion call or the rendering throws, or the content
\* is empty or missing, the answer is a 500 JSON error; the renderer is not
\* called after an empty completion; no exception leaves POST.
C10_NoPartialResult ==
    /\ response.status = 200
          => /\ calls.completion = SummaryText
             /\ calls.pdf = 1
             /\ calls.rendered = calls.completion
    /\ ( /\ pc = "responded"
         /\ \/ request.formData = "throws"
            \/ calls.completion \in {Throws, NoChoices, null, <<>>}
            \/ calls.rendered = Throws )
          => /\ response.status = 500
             /\ response.contentType = "application/json"
    /\ calls.completion \in {null, <<>>} => calls.pdf = 0
    /\ pc = "responded" => response.status \in {200, 400, 500}

\* the completion came back empty and POST answered 500 without rendering
C10_Witness ==
    /\ pc = "responded"
    /\ calls.completion = <<>>
    /\ calls.pdf = 0
    /\ response.status = 500

-----------------------------------------------------------------------------
(* generateResumePdf *)

BULLET == "+"       \* stands for the bullet U+2022 of the contact line

LowerCase == <<"a", "b", "c", "d", "e", "f", "g", "h", "i", "j", "k", "l", "m",
               "n", "o", "p", "q", "r", "s", "t", "u", "v", "w", "x", "y", "z">>
UpperCase == <<"A", "B", "C", "D", "E", "F", "G", "H", "I", "J", "K", "L", "M",
               "N", "O", "P", "Q", "R", "S", "T", "U", "V", "W", "X", "Y", "Z">>

mapChars(s, from, to) ==
    [k \in 1..Len(s) |->
        IF \E n \in 1..Len(from) : from[n] = s[k]
        THEN to[CHOOSE n \in 1..Len(from) : from[n] = s[k]]
        ELSE s[k]]

toUpperCase(s) == mapChars(s, LowerCase, UpperCase)
toLowerCase(s) == mapChars(s, UpperCase, LowerCase)

endsWith(s, c) == s # <<>> /\ s[Len(s)] = c
startsWith(s, c) == s # <<>> /\ s[1] = c

\* the dot of a regular expression matches all but a line terminator; \s
\* matches white space
Dot(s, a, b) == \A k \in a..b : s[k] \notin {"\n", "\r"}
Blank(s, a, b) == \A k \in a..b : s[k] \in WhiteSpace
AtWord(s, p) == p + 3 <= Len(s) /\ SubSeq(s, p, p + 3) = <<" ", "a", "t", " ">>

\* / at .+:.+/.test(line)
isJobExperience(ln) ==
    \E p \in 1..(Len(ln) - 3) :
        /\ AtWord(ln, p)
        /\ \E c \in (p + 5)..(Len(ln) - 1) :
              /\ ln[c] = ":"
              /\ Dot(ln, p + 4, c - 1)
              /\ Dot(ln, c + 1, c + 1)

\* the ways /^(.+?) at (.+?):\s*(.+)$/ can match: the places q where the
\* period can start after a colon at c, the colons c that can end the company
\* after " at " at p, and the places p of " at " that can end the title
periodStarts(ln, c) ==
    {q \in (c + 1)..Len(ln) : Blank(ln, c + 1, q - 1) /\ Dot(ln, q, Len(ln))}

companyEnds(ln, p) ==
    {c \in (p + 5)..(Len(ln) - 1) :
        ln[c] = ":" /\ Dot(ln, p + 4, c - 1) /\ periodStarts(ln, c) # {}}

titleEnds(ln) ==
    {p \in 2..(Len(ln) - 3) :
        AtWord(ln, p) /\ Dot(ln, 1, p - 1) /\ companyEnds(ln, p) # {}}

Least(S) == CHOOSE x \in S : \A z \in S : x <= z
Greatest(S) == CHOOSE x \in S : \A z \in S : x >= z

\* line.match(...): the title and the company are lazy, \s* is greedy
jobMatch(ln) ==
    IF titleEnds(ln) = {} THEN [matched |-> FALSE]
    ELSE LET p == Least(titleEnds(ln))
             c == Least(companyEnds(ln, p))
             q == Greatest(periodStarts(ln, c))
         IN  [matched |-> TRUE,
              jobTitle |-> SubSeq(ln, 1, p - 1),
              companyName |-> SubSeq(ln, p + 4, c - 1),
              period |-> SubSeq(ln, q, Len(ln))]

\* const categoryName = line.trim()
categoryName(ln) == trim(ln)

Pt(n) == n * 10

\* page.drawText(text, {y, ...}) on the current page
draw(st, kind, text) ==
    [st EXCEPT !.drawn = Append(@, [kind |-> kind, text |-> text,
                                    y |-> st.y, page |-> st.pages])]

\* y -= d
down(st, d) == [st EXCEPT !.y = @ - d, !.advance = @ + d]

\* if (y < MARGIN_BOTTOM) { page = pdfDoc.addPage(...); y = PAGE_HEIGHT - MARGIN_TOP }
newPageIfBelow(st) ==
    IF st.y < Pt(MARGIN_BOTTOM)
    THEN [st EXCEPT !.pages = @ + 1, !.y = Pt(PAGE_HEIGHT - MARGIN_TOP)]
    ELSE st

\* the loops of the header block: draw, move down
RECURSIVE drawHeaderLines(_, _, _, _)
drawHeaderLines(st, lines, kind, lineHeight) ==
    IF lines = <<>> THEN st
    ELSE drawHeaderLines(down(draw(st, kind, Head(lines)), lineHeight),
                         Tail(lines), kind, lineHeight)

\* the loops of the body: draw, move down, start a page if below the margin
RECURSIVE drawBodyLines(_, _, _, _)
drawBodyLines(st, lines, kind, lineHeight) ==
    IF lines = <<>> THEN st
    ELSE drawBodyLines(
             newPageIfBelow(down(draw(st, kind, Head(lines)), lineHeight)),
             Tail(lines), kind, lineHeight)

\* the name, the contact line and the rule under them
headerBlock(st, p) ==
    LET afterName ==
            IF p.name # undefined
            THEN down(drawHeaderLines(st,
                          wrapText(toUpperCase(p.name), "fontBold", NAME_SIZE,
                                   CONTENT_WIDTH),
                          "name", NAME_LINE_HEIGHT),
                      Pt(2))
            ELSE down(st, NAME_LINE_HEIGHT)
        contactParts ==
            SelectSeq(<<p.location, p.phone, p.email, p.linkedin>>,
                      LAMBDA v : v # undefined)
        afterContact ==
            IF contactParts # <<>>
            THEN down(drawHeaderLines(afterName,
                          wrapText(join(contactParts, <<SP, BULLET, SP>>),
                                   "font", CONTACT_SIZE, CONTENT_WIDTH),
                          "contact", CONTACT_LINE_HEIGHT),
                      Pt(4))
            ELSE afterName
    IN  down(draw(afterContact, "rule", <<>>), Pt(16))

jobEntry(st, m) ==
    LET afterTitle ==
            drawBodyLines(down(st, Pt(8)),
                wrapText(trim(m.jobTitle), "fontBold", BODY_SIZE + 1,
                         CONTENT_WIDTH - 10),
                "title", BODY_LINE_HEIGHT + Pt(2))
        afterCompany ==
            drawBodyLines(afterTitle,
                wrapText(trim(m.companyName), "font", BODY_SIZE,
                         CONTENT_WIDTH - 10),
                "company", BODY_LINE_HEIGHT)
        afterPeriod ==
            drawBodyLines(afterCompany,
                wrapText(formatDate(trim(m.period)), "font", BODY_SIZE - 1,
                         CONTENT_WIDTH - 10),
                "period", BODY_LINE_HEIGHT - Pt(2))
    IN  down(afterPeriod, Pt(4))

\* one iteration of the loop over the body lines; a blank line leaves the
\* iteration by continue, before the check that ends it
bodyLine(st, raw) ==
    LET ln == trim(raw)
    IN  IF ln = <<>> THEN down(st, Pt(6))
        ELSE newPageIfBelow(
                 IF endsWith(ln, ":")
                 THEN drawBodyLines(down(st, Pt(12)),
                          wrapText(ln, "fontBold", SECTION_HEADER_SIZE,
                                   CONTENT_WIDTH),
                          "section", SECTION_LINE_HEIGHT)
                 ELSE IF isJobExperience(ln)
                 THEN IF jobMatch(ln).matched THEN jobEntry(st, jobMatch(ln))
                      ELSE st
                 ELSE IF startsWith(ln, MIDDOT)
                 THEN drawBodyLines(st,
                          wrapText(categoryName(ln), "fontBold", BODY_SIZE + 1,
                                   CONTENT_WIDTH - 20),
                          "category", BODY_LINE_HEIGHT + Pt(2))
                 ELSE drawBodyLines(st,
                          wrapText(ln, "font", BODY_SIZE, CONTENT_WIDTH - 10),
                          "plain", BODY_LINE_HEIGHT))

\* the 'skills:' of the test that enters the skills section
SkillsLiteral == <<"s", "k", "i", "l", "l", "s", ":">>

\* a skills mode that any other section header ends
skillsModeLeaves(inSkills, ln) ==
    IF endsWith(ln, ":") THEN toLowerCase(ln) = SkillsLiteral ELSE inSkills

\* inSkillsSection after the trimmed line ln: set by the section header
\* "skills:" in any letter case, and reset nowhere
skillsMode(inSkills, ln) ==
    IF endsWith(ln, ":") /\ toLowerCase(ln) = SkillsLiteral
    THEN TRUE ELSE inSkills

\* the block after the loop
skillsBlock(st, inSkills, sk) ==
    IF inSkills /\ sk # <<>>
    THEN drawBodyLines(st,
             wrapText(join(sk, <<SP>>), "font", BODY_SIZE, CONTENT_WIDTH - 20),
             "skills", BODY_LINE_HEIGHT)
    ELSE st

\* bounded inputs of generateResumePdf: a text, and body lines that follow
\* it, read one per step
MaxBodyLines == 7

SixLineHeader ==
    <<"D", "e", "v", "\n", "A", "l", " ", "B", "o", "\n", "e", "@", "x",
      "\n", "5", "5", "5", "\n", "T", "o", "k", "y", "o", "\n", "i", "n",
      "/", "a", "l">>
OneWordName ==
    <<"D", "e", "v", "\n", "A", "l", "\n", "e", "\n", "5", "\n", "T", "\n",
      "l">>
TwoLines ==
    <<"S", "k", "i", "l", "l", "s", ":", "\n", "^", " ", "F", "r", "o",
      "n", "t", "e", "n", "d">>

FlowTexts == {<<>>, TwoLines, SixLineHeader, OneWordName}

SkillsHeader == <<"S", "k", "i", "l", "l", "s", ":">>
FrontendCategory == <<"^", " ", "F", "r", "o", "n", "t", "e", "n", "d">>
SeniorEngineer ==
    <<"S", "e", "n", "i", "o", "r", " ", "E", "n", "g", "i", "n", "e", "e",
      "r", " ", "a", "t", " ", "A", "c", "m", "e", " ", "C", "o", "r", "p",
      ":", " ", "0", "1", "/", "2", "0", "2", "0", " ", "-", " ", "0", "2",
      "/", "2", "0", "2", "2">>
SixWords ==
    <<"a", "a", "a", " ", "b", "b", "b", " ", "c", "c", "c", " ", "d", "d",
      "d", " ", "e", "e", "e", " ", "f", "f", "f">>
LeadAtAcme == <<"L", "e", "a", "d", " ", "a", "t", " ", "A", "c", "m", "e", ":">>
DotJob ==
    <<"^", " ", "D", "e", "v", " ", "a", "t", " ", "A", "c", "m", "e", ":",
      " ", "2", "0", "2", "0">>

FlowLines ==
    {<<>>, SkillsHeader, FrontendCategory, SeniorEngineer, SixWords,
     <<"a", "b">>, LeadAtAcme, DotJob}

InitFlow ==
    /\ pc = "generate"
    /\ resumeText \in FlowTexts
    /\ more \in BOOLEAN
    /\ more => Cardinality(NonBlank(split(resumeText, NL))) >= HeaderFields
    /\ parsed = None
    /\ bodyLines = <<>>
    /\ count = 0
    /\ lastLine = None
    /\ cursor = [y |-> Pt(PAGE_HEIGHT - MARGIN_TOP), pages |-> 1, advance |-> 0]
    /\ inSkillsSection = FALSE
    /\ skills = <<>>
    /\ drawn = <<>>
    /\ IdleWrap /\ IdleDate /\ IdlePost

\* parseResume, the first page and the header block
Start ==
    /\ pc = "generate"
    /\ parsed' = parseResume(resumeText)
    /\ LET st == headerBlock([y |-> cursor.y, pages |-> cursor.pages,
                              advance |-> cursor.advance, drawn |-> <<>>],
                             parsed')
       IN  /\ cursor' = [y |-> st.y, pages |-> st.pages,
                         advance |-> st.advance]
           /\ drawn' = st.drawn
    /\ bodyLines' = IF more /\ parsed'.body = <<>> THEN <<>>
                    ELSE split(parsed'.body, NL)
    /\ pc' = "body"
    /\ UNCHANGED <<resumeText, more, count, lastLine, inSkillsSection, skills,
                   wrapVars, dateVars, postVars>>

\* the body lines still to come: those of resumeText first, then up to
\* MaxBodyLines in all of any kind (parseResume has dropped the blank lines
\* that come right after the header)
NextLines ==
    IF bodyLines # <<>> THEN {Head(bodyLines)}
    ELSE IF more /\ count < MaxBodyLines
    THEN {l \in FlowLines : count = 0 => trim(l) # <<>>}
    ELSE {}

\* one iteration of the for loop
BodyLine ==
    /\ pc = "body"
    /\ \E raw \in NextLines :
          LET st == bodyLine([y |-> cursor.y, pages |-> cursor.pages,
                              advance |-> cursor.advance, drawn |-> <<>>],
                             raw)
          IN  /\ lastLine' = raw
              /\ cursor' = [y |-> st.y, pages |-> st.pages,
                            advance |-> st.advance]
              /\ drawn' = st.drawn
              /\ inSkillsSection' = skillsMode(inSkillsSection, trim(raw))
    /\ bodyLines' = IF bodyLines # <<>> THEN Tail(bodyLines) ELSE bodyLines
    /\ count' = count + 1
    /\ UNCHANGED <<pc, resumeText, parsed, more, skills,
                   wrapVars, dateVars, postVars>>

\* the end of the loop, the skills block and pdfDoc.save()
Finish ==
    /\ pc = "body"
    /\ bodyLines = <<>>
    /\ more => count >= 1
    /\ LET st == skillsBlock([y |-> cursor.y, pages |-> cursor.pages,
                              advance |-> cursor.advance, drawn |-> <<>>],
                             inSkillsSection, skills)
       IN  /\ cursor' = [y |-> st.y, pages |-> st.pages,
                         advance |-> st.advance]
           /\ drawn' = st.drawn
    /\ pc' = "saved"
    /\ UNCHANGED <<resumeText, parsed, more, bodyLines, count, lastLine,
                   inSkillsSection, skills, wrapVars, dateVars, postVars>>

Next == Start \/ BodyLine \/ Finish

Spec == InitFlow /\ [][Next]_vars

\* C1: every line generateResumePdf draws, on any page, is drawn at a y that
\* is not below the bottom margin.
C1_DrawnAboveMargin ==
    \A k \in 1..Len(drawn) : drawn[k].y >= Pt(MARGIN_BOTTOM)

\* C2: when the total vertical advance of the header block and the body
\* lines exceeds the height between the top and the bottom margin, the
\* saved document has more than one page.
C2_MoreThanOnePage ==
    (pc = "saved"
        /\ cursor.advance > Pt(PAGE_HEIGHT - MARGIN_TOP - MARGIN_BOTTOM))
    => cursor.pages > 1

\* the body line processed last is rendered as a skills category
IsSkillsCategory(raw) ==
    /\ startsWith(trim(raw), MIDDOT)
    /\ ~ endsWith(trim(raw), ":")
    /\ ~ isJobExperience(trim(raw))

\* C7: a skills category line is drawn as its name, that is the line without
\* the leading glyph, trimmed: the drawn text does not contain the glyph.
C7_GlyphStripped ==
    (pc = "body" /\ count > 0 /\ IsSkillsCategory(lastLine))
    => /\ drawn # <<>>
       /\ join([k \in 1..Len(drawn) |-> drawn[k].text], <<SP>>)
             = trim(Tail(trim(lastLine)))

\* C13: the accumulated-skills buffer is empty in every reachable state, so
\* the block after the loop draws nothing and adds no page, whether or not a
\* "skills:" section header has set the skills mode; and the mode, once set,
\* is never left.
C13_SkillsNeverDrawn ==
    /\ [](/\ skills = <<>>
          /\ \A k \in 1..Len(drawn) : drawn[k].kind # "skills")
    /\ [][/\ inSkillsSection => inSkillsSection'
          /\ (pc = "body" /\ pc' = "saved") =>
                 (cursor' = cursor /\ drawn' = <<>>)]_vars

\* the document was saved in skills mode, after lines that followed the
\* "skills:" header, with nothing drawn by the block after the loop
C13_Witness ==
    /\ pc = "saved"
    /\ inSkillsSection
    /\ toLowerCase(trim(lastLine)) # SkillsLiteral
    /\ skills = <<>>
    /\ drawn = <<>>

-----------------------------------------------------------------------------
(* One iteration of the body loop, applied to bounded lines *)

\* bounded body lines: up to MaxLineTokens of these, concatenated
MaxLineTokens == 7
LineTokens == {<<"a">>, <<" ", "a", "t", " ">>, <<":">>, <<MIDDOT>>, <<SP>>,
               <<"\r">>}

InitLine ==
    /\ pc = "line"
    /\ lastLine \in {concat(ts) : ts \in SeqsUpTo(LineTokens, MaxLineTokens)}
    /\ cursor = [y |-> Pt(PAGE_HEIGHT - MARGIN_TOP), pages |-> 1, advance |-> 0]
    /\ drawn = <<>>
    /\ inSkillsSection = FALSE
    /\ skills = <<>>
    /\ more = FALSE
    /\ bodyLines = <<>>
    /\ count = 0
    /\ IdleParse /\ IdleWrap /\ IdleDate /\ IdlePost

\* the iteration of the for loop that handles lastLine
HandleLine ==
    /\ pc = "line"
    /\ LET st == bodyLine([y |-> cursor.y, pages |-> cursor.pages,
                           advance |-> cursor.advance, drawn |-> <<>>],
                          lastLine)
       IN  /\ cursor' = [y |-> st.y, pages |-> st.pages,
                         advance |-> st.advance]
           /\ drawn' = st.drawn
    /\ inSkillsSection' = skillsMode(inSkillsSection, trim(lastLine))
    /\ count' = count + 1
    /\ pc' = "handled"
    /\ UNCHANGED <<lastLine, more, bodyLines, skills,
                   parseVars, wrapVars, dateVars, postVars>>

NextLine == HandleLine

SpecLine == InitLine /\ [][NextLine]_vars

\* what a kind of line draws
KindsDrawn(kind) ==
    CASE kind = "Blank" -> {}
      [] kind = "SectionHeader" -> {"section"}
      [] kind = "JobEntry" -> {"title", "company", "period"}
      [] kind = "SkillsCategory" -> {"category"}
      [] kind = "PlainText" -> {"plain"}

\* the kind of a trimmed line by the precedence Blank, SectionHeader,
\* JobEntry, SkillsCategory, PlainText
KindOf(ln) ==
    IF ln = <<>> THEN "Blank"
    ELSE IF ln[Len(ln)] = ":" THEN "SectionHeader"
    ELSE IF isJobExperience(ln) THEN "JobEntry"
    ELSE IF ln[1] = MIDDOT THEN "SkillsCategory"
    ELSE "PlainText"

\* C11: every body line is handled as exactly one kind, the earliest of
\* Blank, SectionHeader, JobEntry, SkillsCategory and PlainText that fits:
\* everything drawn for the line is of that kind, and a non-blank line has
\* something drawn.
C11_OneKindByPrecedence ==
    pc = "handled" =>
        LET kind == KindOf(trim(lastLine))
        IN  /\ \A k \in 1..Len(drawn) : drawn[k].kind \in KindsDrawn(kind)
            /\ kind # "Blank" => drawn # <<>>

=============================================================================
